---- MODULE Spec2Model ----
(***************************************************************************)
(* A model of accountant_tool (src/src/main.rs): the per-year invoice      *)
(* ledger, Invoice::new, Invoice::accountant_info and the tax engine       *)
(* (tax_buckets, appliable_tax_buckets, calc_government_tax,               *)
(* calc_social_contribution, calc_taxes).                                  *)
(*                                                                         *)
(* Money.  The program computes in f64.  The model computes exactly, in    *)
(* integers counting 1/Unit euro: every input is a whole number of euros,  *)
(* every bracket rate is a multiple of 1/100 and the social fee is 41/200, *)
(* so each product the program forms is a whole number of 1/4000 euro.     *)
(* Rounding of f64 is therefore outside the model.                         *)
(***************************************************************************)
EXTENDS Integers, Sequences, FiniteSets, TLC

\* ---------------------------------------------------------------- bounds

\* calendar years the clock can show
MaxYear == 2
\* how far around each bracket bound the allocator's inputs are drawn (euros)
MaxOff == 1

\* ---------------------------------------------------- numeric representation

\* one euro, in the model's unit of money
Unit == 4000

\* x * (num/den), exact whenever den divides x
MulRate(x, rate) == (x \div rate.den) * rate.num

\* Option<T>
None == [some |-> FALSE, val |-> 0]
Some(v) == [some |-> TRUE, val |-> v]

\* ------------------------------------------------------------- text fields

\* The decimal text of a number: its sign and its digits, most significant first.
RECURSIVE Digits(_)
Digits(n) == IF n < 10 THEN <<n>> ELSE Append(Digits(n \div 10), n % 10)

\* to_string of a number (of the value in model units)
to_string(n) == IF n < 0 THEN [minus |-> TRUE, digits |-> Digits(0 - n)]
                ELSE [minus |-> FALSE, digits |-> Digits(n)]

RECURSIVE ParseDigits(_, _, _)
ParseDigits(digits, k, acc) ==
    IF k > Len(digits) THEN acc ELSE ParseDigits(digits, k + 1, 10 * acc + digits[k])

\* str::parse of a numeric field
parse(text) == IF text.minus THEN 0 - ParseDigits(text.digits, 1, 0)
               ELSE ParseDigits(text.digits, 1, 0)

\* String::to_uppercase on the currency codes the model passes
to_uppercase(s) == CASE s = "eur" -> "EUR"
                     [] s = "usd" -> "USD"
                     [] OTHER -> s

\* ------------------------------------------------------------ bracket table

tax_buckets ==
    << [to |-> Some(13870), perc |-> [num |-> 25, den |-> 100]],
       [to |-> Some(24480), perc |-> [num |-> 40, den |-> 100]],
       [to |-> Some(42370), perc |-> [num |-> 45, den |-> 100]],
       [to |-> None,        perc |-> [num |-> 50, den |-> 100]] >>

\* tax_bucket.to.unwrap() as f64, in model units
UpperBound(tax_bucket) == tax_bucket.to.val * Unit

\* ------------------------------------------------------- bracket allocator

\* variant of WalkStart: the remaining profit starts at the interval's upper edge
WalkStartRemFromRange(total_gross_profit, gross_profit) ==
    [ gross_profit_range |-> <<total_gross_profit, total_gross_profit + gross_profit>>,
      gross_profit |-> total_gross_profit + gross_profit,
      appliable_tax_buckets |-> <<>>,
      i |-> 1,
      returned |-> FALSE ]

\* the locals of appliable_tax_buckets on entry to the loop
WalkStart(total_gross_profit, gross_profit) ==
    [ gross_profit_range |-> <<total_gross_profit, total_gross_profit + gross_profit>>,
      gross_profit |-> gross_profit,
      appliable_tax_buckets |-> <<>>,
      i |-> 1,
      returned |-> FALSE ]

\* tax_bucket.to == None
IsUnbounded(tax_bucket) == ~tax_bucket.to.some

\* gross_profit_range.0 > tax_bucket.to.unwrap() as f64
IsPast(gross_profit_range, tax_bucket) ==
    gross_profit_range[1] > UpperBound(tax_bucket)

\* variant of Fits: tests the interval's lower edge
FitsLowerEdge(gross_profit_range, tax_bucket) ==
    gross_profit_range[1] < UpperBound(tax_bucket)

\* gross_profit_range.1 < tax_bucket.to.unwrap() as f64
Fits(gross_profit_range, tax_bucket) ==
    gross_profit_range[2] < UpperBound(tax_bucket)

\* variant of StraddleDiff: measures from the current remaining profit
StraddleDiffFromRemaining(gross_profit_range, gross_profit, tax_bucket) ==
    UpperBound(tax_bucket) - (gross_profit_range[1] + gross_profit)

\* let diff = tax_bucket.to.unwrap() as f64 - gross_profit_range.1
StraddleDiff(gross_profit_range, gross_profit, tax_bucket) ==
    UpperBound(tax_bucket) - gross_profit_range[2]

\* variant of RemainingAfter: the remaining profit is not reduced
RemainingKept(gross_profit, diff) == gross_profit

\* gross_profit -= diff
RemainingAfter(gross_profit, diff) == gross_profit - diff

\* which arm of the loop body the current bucket takes
Arm(w) ==
    LET tax_bucket == tax_buckets[w.i]
    IN  IF IsUnbounded(tax_bucket) THEN "unbounded"
        ELSE IF IsPast(w.gross_profit_range, tax_bucket) THEN "skip"
        ELSE IF Fits(w.gross_profit_range, tax_bucket) THEN "fits"
        ELSE "straddle"

\* one iteration of `for tax_bucket in tax_buckets`
Iterate(w) ==
    LET tax_bucket == tax_buckets[w.i]
        arm == Arm(w)
        diff == StraddleDiff(w.gross_profit_range, w.gross_profit, tax_bucket)
    IN  CASE arm \in {"unbounded", "fits"} ->
                [w EXCEPT !.appliable_tax_buckets =
                              Append(@, <<w.gross_profit, tax_bucket.perc>>),
                          !.returned = TRUE]
          [] arm = "skip" ->
                [w EXCEPT !.i = @ + 1]
          [] arm = "straddle" ->
                [w EXCEPT !.appliable_tax_buckets = Append(@, <<diff, tax_bucket.perc>>),
                          !.gross_profit = RemainingAfter(@, diff),
                          !.i = @ + 1]

\* the loop is still running
Running(w) == ~w.returned /\ w.i <= Len(tax_buckets)

RECURSIVE RunLoop(_)
RunLoop(w) == IF Running(w) THEN RunLoop(Iterate(w)) ELSE w.appliable_tax_buckets

appliable_tax_buckets(total_gross_profit, gross_profit) ==
    RunLoop(WalkStart(total_gross_profit, gross_profit))

\* ------------------------------------------------------------ tax pipeline

RECURSIVE GovernmentTaxLoop(_, _, _, _)
GovernmentTaxLoop(buckets, k, profit_after_government_tax, government_tax) ==
    IF k > Len(buckets) THEN <<profit_after_government_tax, government_tax>>
    ELSE LET gross_profit == buckets[k][1]
             tax == buckets[k][2]
             gov == government_tax + MulRate(gross_profit, tax)
         IN  GovernmentTaxLoop(buckets, k + 1,
                               profit_after_government_tax + (gross_profit - gov), gov)

\* (profit_after_government_tax, government_tax)
calc_government_tax(buckets) == GovernmentTaxLoop(buckets, 1, 0, 0)

\* 0.205
SOCIAL_CONTRIBUTION_FEE == [num |-> 41, den |-> 200]

\* variant of calc_social_contribution: the fee is not taken off the net profit
calc_social_contribution_no_fee(profit_after_government_tax) ==
    <<profit_after_government_tax, MulRate(profit_after_government_tax, SOCIAL_CONTRIBUTION_FEE)>>

\* (net_profit, social_contribution)
calc_social_contribution(profit_after_government_tax) ==
    LET social_contribution == MulRate(profit_after_government_tax, SOCIAL_CONTRIBUTION_FEE)
    IN  <<profit_after_government_tax - social_contribution, social_contribution>>

RECURSIVE SumGross(_)
SumGross(invoices) ==
    IF invoices = <<>> THEN 0 ELSE invoices[1].gross_profit + SumGross(Tail(invoices))

\* (gross_profit, net_profit, government_tax, social_contribution)
calc_taxes(days_worked, daily_rate, invoices) ==
    LET total_gross_profit == SumGross(invoices)
        gross_profit == days_worked * daily_rate
        gov == calc_government_tax(appliable_tax_buckets(total_gross_profit, gross_profit))
        soc == calc_social_contribution(gov[1])
    IN  <<gross_profit, soc[1], gov[2], soc[2]>>

\* ------------------------------------------------------------------ ledger

VARIABLES
    year,      \* the calendar year the local clock shows
    ledger,    \* the ledger file of that year, src/invoices_<year>.csv
    outcome,   \* how the last operation ended
    io,        \* the file operations the last operation performed, in order
    stdout,    \* what the last operation printed
    walk       \* the locals of an appliable_tax_buckets call in progress

vars == <<year, ledger, outcome, io, stdout, walk>>

\* no file at that path
NoFile == [exists |-> FALSE, rows |-> <<>>]
\* File::create + the header row: a file with no data rows
HeaderOnly == [exists |-> TRUE, rows |-> <<>>]

\* the record write_invoice_to_csv writes for an invoice
Record(invoice) ==
    [ name |-> invoice.name,
      date |-> to_string(invoice.date),
      days_worked |-> to_string(invoice.days_worked),
      daily_rate |-> to_string(invoice.daily_rate),
      currency |-> invoice.currency,
      gross_profit |-> to_string(invoice.gross_profit),
      net_profit |-> to_string(invoice.net_profit),
      government_tax |-> to_string(invoice.government_tax),
      social_contribution_tax |-> to_string(invoice.social_contribution_tax),
      total_tax |-> to_string(invoice.total_tax) ]

\* the Invoice fetch_invoices builds from a record
ReadInvoice(record) ==
    [ name |-> record.name,
      date |-> parse(record.date),
      days_worked |-> parse(record.days_worked),
      daily_rate |-> parse(record.daily_rate),
      currency |-> record.currency,
      gross_profit |-> parse(record.gross_profit),
      net_profit |-> parse(record.net_profit),
      government_tax |-> parse(record.government_tax),
      social_contribution_tax |-> parse(record.social_contribution_tax),
      total_tax |-> parse(record.total_tax) ]

\* fetch_invoices: the invoices returned, the file afterwards, the file operations
fetch_invoices(file) ==
    IF ~file.exists
    THEN [invoices |-> <<>>, file |-> HeaderOnly, io |-> <<"create">>]
    ELSE [invoices |-> [k \in 1..Len(file.rows) |-> ReadInvoice(file.rows[k])],
          file |-> file, io |-> <<"read">>]

\* write_invoice_to_csv: the record is appended to the file.  (The empty record
\* written after it adds no data row: fetch_invoices reads back the invoices only.)
write_invoice_to_csv(file, invoice) ==
    [exists |-> TRUE, rows |-> Append(file.rows, Record(invoice))]

\* variant of NameTaken: only the first invoice is compared
NameTakenByFirst(invoices, name) ==
    invoices # <<>> /\ invoices[1].name = name

\* invoices.iter().any(|invoice| invoice.name == name)
NameTaken(invoices, name) ==
    \E k \in 1..Len(invoices) : invoices[k].name = name

\* const DAILY_RATE: f64 = 500.0
DAILY_RATE == 500 * Unit
\* const CURRENCY: &str = "EUR"
CURRENCY == "EUR"

unwrap_or(opt, default) == IF opt.some THEN opt.val ELSE default

\* the checks of Invoice::new, in its order
Validate(invoices, name, days_worked, daily_rate_opt) ==
    IF NameTaken(invoices, name) THEN "panic_name"
    ELSE IF days_worked = 0 THEN "panic_days_worked"
    ELSE IF daily_rate_opt = Some(0) THEN "panic_daily_rate"
    ELSE "no"

\* the Invoice that Invoice::new builds
Build(name, days_worked, daily_rate, currency, invoices) ==
    LET taxes == calc_taxes(days_worked, daily_rate, invoices)
    IN  [ name |-> name,
          date |-> year,
          days_worked |-> days_worked,
          daily_rate |-> daily_rate,
          currency |-> currency,
          gross_profit |-> taxes[1],
          net_profit |-> taxes[2],
          government_tax |-> taxes[3],
          social_contribution_tax |-> taxes[4],
          total_tax |-> taxes[3] + taxes[4] ]

\* Invoice::new once fetch_invoices has returned `fetched`: how the call ends,
\* the ledger file it leaves and the file operations it has performed
NewAfterFetch(fetched, name, days_worked, daily_rate_opt, currency_opt) ==
    LET panic == Validate(fetched.invoices, name, days_worked, daily_rate_opt)
    IN  IF panic # "no"
        THEN [outcome |-> panic, ledger |-> fetched.file, io |-> fetched.io]
        ELSE [outcome |-> "written",
              ledger |-> write_invoice_to_csv(fetched.file,
                             Build(name, days_worked,
                                   unwrap_or(daily_rate_opt, DAILY_RATE),
                                   to_uppercase(unwrap_or(currency_opt, CURRENCY)),
                                   fetched.invoices)),
              io |-> fetched.io \o <<"append">>]

\* Invoice::new
New(name, days_worked, daily_rate_opt, currency_opt) ==
    \E fetched \in {fetch_invoices(ledger)} :
    \E ended \in {NewAfterFetch(fetched, name, days_worked, daily_rate_opt, currency_opt)} :
        /\ outcome' = ended.outcome
        /\ ledger' = ended.ledger
        /\ io' = ended.io
        /\ stdout' = <<>>
        /\ UNCHANGED <<year, walk>>

RECURSIVE SumField(_, _)
SumField(invoices, f) ==
    IF invoices = <<>> THEN 0 ELSE invoices[1][f] + SumField(Tail(invoices), f)

\* Invoice::accountant_info
AccountantInfo ==
    \E fetched \in {fetch_invoices(ledger)} :
    \E invoices \in {fetched.invoices} :
        /\ ledger' = fetched.file
        /\ io' = fetched.io
        /\ outcome' = "reported"
        /\ stdout' = << SumField(invoices, "gross_profit"),
                        SumField(invoices, "net_profit"),
                        SumField(invoices, "government_tax"),
                        SumField(invoices, "social_contribution_tax"),
                        SumField(invoices, "total_tax") >>
        /\ UNCHANGED <<year, walk>>

\* The local clock passes into the next calendar year.  file_path() then names a
\* path at which no file exists yet; the clock never goes back, so the files of
\* earlier years are out of the program's reach and the model drops them.
NewYear ==
    /\ year < MaxYear
    /\ year' = year + 1
    /\ ledger' = NoFile
    /\ UNCHANGED <<outcome, io, stdout, walk>>

\* the arguments the operations are called with
Names == {"inv_a", "inv_b", "inv_c"}
DaysWorked == {0, 5, 95}
DailyRates == {None, Some(0), Some(146 * Unit), Some(500 * Unit)}
Currencies == {None, Some("eur")}

Idle == WalkStart(0, 0)

Init ==
    /\ year = 1
    /\ ledger = NoFile
    /\ outcome = "start"
    /\ io = <<>>
    /\ stdout = <<>>
    /\ walk = Idle

CreateInvoice ==
    \E name \in Names, days_worked \in DaysWorked,
       daily_rate \in DailyRates, currency \in Currencies :
        New(name, days_worked, daily_rate, currency)

Next == CreateInvoice \/ AccountantInfo \/ NewYear

Spec == Init /\ [][Next]_vars

\* ------------------------------------------- the allocator, step by step

BracketBounds == {tax_buckets[k].to.val : k \in {j \in 1..Len(tax_buckets) : tax_buckets[j].to.some}}

\* prior cumulative gross profit and new gross profit, in euros
Priors == {0, 50000} \cup {b + d : b \in BracketBounds, d \in (0 - MaxOff)..MaxOff}
Profits == {0, 1, 2500, 13870, 20000, 50000}

InitAlloc ==
    /\ year = 1
    /\ ledger = NoFile
    /\ outcome = "start"
    /\ io = <<>>
    /\ stdout = <<>>
    /\ \E p \in Priors, n \in Profits : walk = WalkStart(p * Unit, n * Unit)

\* `if tax_bucket.to == None`: push the remaining profit and return
StepUnbounded ==
    /\ Running(walk)
    /\ Arm(walk) = "unbounded"
    /\ walk' = Iterate(walk)
    /\ UNCHANGED <<year, ledger, outcome, io, stdout>>

\* `else if gross_profit_range.0 > to`: continue
StepSkip ==
    /\ Running(walk)
    /\ Arm(walk) = "skip"
    /\ walk' = Iterate(walk)
    /\ UNCHANGED <<year, ledger, outcome, io, stdout>>

\* `if gross_profit_range.1 < to`: push the remaining profit and return
StepFits ==
    /\ Running(walk)
    /\ Arm(walk) = "fits"
    /\ walk' = Iterate(walk)
    /\ UNCHANGED <<year, ledger, outcome, io, stdout>>

\* `else`: push diff, gross_profit -= diff, next bucket
StepStraddle ==
    /\ Running(walk)
    /\ Arm(walk) = "straddle"
    /\ walk' = Iterate(walk)
    /\ UNCHANGED <<year, ledger, outcome, io, stdout>>

NextAlloc == StepUnbounded \/ StepSkip \/ StepFits \/ StepStraddle

SpecAlloc == InitAlloc /\ [][NextAlloc]_vars

\* =========================================================== properties

\* ---- helpers of the properties

Min(a, b) == IF a < b THEN a ELSE b
Max(a, b) == IF a > b THEN a ELSE b

RECURSIVE SumAmounts(_)
SumAmounts(buckets) ==
    IF buckets = <<>> THEN 0 ELSE buckets[1][1] + SumAmounts(Tail(buckets))

Emitted == walk.appliable_tax_buckets
PriorProfit == walk.gross_profit_range[1]
UpperEdge == walk.gross_profit_range[2]
NewProfit == UpperEdge - PriorProfit

\* the bracket a rate belongs to (the rates of the table are pairwise different)
BucketOfRate(perc) == CHOOSE k \in 1..Len(tax_buckets) : tax_buckets[k].perc = perc

\* the lower edge of bracket k's band
BandLow(k) == IF k = 1 THEN 0 ELSE UpperBound(tax_buckets[k - 1])

\* the length of [lo, hi) inside bracket k's band
InsideBand(lo, hi, k) ==
    LET top == IF IsUnbounded(tax_buckets[k]) THEN hi
               ELSE Min(hi, UpperBound(tax_buckets[k]))
        bot == Max(lo, BandLow(k))
    IN  IF top > bot THEN top - bot ELSE 0

\* the last bounded threshold of the table (42370)
LastBound == UpperBound(tax_buckets[Len(tax_buckets) - 1])
FirstBound == UpperBound(tax_buckets[1])
TopRate == tax_buckets[Len(tax_buckets)].perc

\* ---- the allocator (SpecAlloc)

\* C1: the walk always ends by a return (never by running off the table), and
\* the amounts of the allocations returned sum to the new profit.
C1_AmountsSumToNewProfit ==
    /\ ~Running(walk) => walk.returned
    /\ walk.returned => SumAmounts(Emitted) = NewProfit

\* a call that straddled two brackets before it returned
C1_Witness ==
    walk.returned /\ Len(Emitted) >= 3 /\ NewProfit > 0

\* C2: for a new profit > 0, each amount emitted is the length of the part of
\* [prior, prior + new) that lies inside the band of the bracket it is paired with.
C2_AmountIsIntersection ==
    (walk.returned /\ NewProfit > 0) =>
        \A j \in 1..Len(Emitted) :
            Emitted[j][1] = InsideBand(PriorProfit, UpperEdge, BucketOfRate(Emitted[j][2]))

\* C3: every allocation emitted has an amount >= 0.
C3_AmountsNonNegative ==
    \A j \in 1..Len(Emitted) : Emitted[j][1] >= 0

\* C4: when prior + new exceeds the last bounded threshold, the walk is ended by
\* the unbounded bracket, and the last allocation returned carries its rate 0.50.
C4_EndsInUnboundedBracket ==
    (walk.returned /\ UpperEdge > LastBound) =>
        /\ walk.i = Len(tax_buckets)
        /\ IsUnbounded(tax_buckets[walk.i])
        /\ Emitted[Len(Emitted)][2] = TopRate
        /\ TopRate = [num |-> 50, den |-> 100]

\* a call whose prior profit is below the first bound and whose upper edge is past the last
C4_Witness ==
    walk.returned /\ UpperEdge > LastBound /\ PriorProfit < FirstBound /\ PriorProfit > 0

\* C8 as stated: with a new profit of 0 the allocator returns the empty sequence.
C8_ZeroProfitReturnsEmpty ==
    (walk.returned /\ NewProfit = 0) => Emitted = <<>>

\* C8 as amended: with a new profit of 0 the allocator returns a non-empty
\* sequence, and every allocation in it has amount 0.
C8_ZeroProfitReturnsZeroAmounts ==
    (walk.returned /\ NewProfit = 0) =>
        /\ Emitted # <<>>
        /\ \A j \in 1..Len(Emitted) : Emitted[j][1] = 0

\* a call with new profit 0 at the exact bound of a bracket: two zero allocations
C8_Witness ==
    walk.returned /\ NewProfit = 0 /\ Len(Emitted) = 2

\* the amount a straddle step emits, and the remaining amount it leaves
StraddleEmitted == walk'.appliable_tax_buckets[Len(walk'.appliable_tax_buckets)][1]

\* C9 as stated: a straddle step emits upperBound - (prior + remaining), with
\* remaining the amount still to place at that iteration, and reduces remaining by it.
C9_StraddleUsesRemaining ==
    [][StepStraddle =>
          /\ StraddleEmitted =
                UpperBound(tax_buckets[walk.i]) - (PriorProfit + walk.gross_profit)
          /\ walk'.gross_profit = walk.gross_profit - StraddleEmitted]_vars

\* C9 as amended: a straddle step emits upperBound - (prior + newProfit), with
\* newProfit the whole new profit the call was given, and reduces remaining by it.
C9_StraddleUsesOriginalEdge ==
    [][StepStraddle =>
          /\ StraddleEmitted = UpperBound(tax_buckets[walk.i]) - (PriorProfit + NewProfit)
          /\ walk'.gross_profit = walk.gross_profit - StraddleEmitted
          /\ Len(walk'.appliable_tax_buckets) = Len(walk.appliable_tax_buckets) + 1]_vars

\* a walk that has straddled a second bracket with a non-zero first amount
C9_Witness ==
    /\ Len(Emitted) >= 2
    /\ walk.i >= 3
    /\ Emitted[1][1] # 0
    /\ walk.gross_profit # NewProfit

\* ---- the ledger and the pipeline (Spec)

Invoices == [k \in 1..Len(ledger.rows) |-> ReadInvoice(ledger.rows[k])]

\* the gross profit of the invoices before the k-th
PriorOf(invoices, k) == SumGross(SubSeq(invoices, 1, k - 1))

\* C5: an invoice whose whole interval lies below the first bracket bound has
\* gross = days x rate, government tax = 0.25 gross, social contribution =
\* 0.205 (gross - government tax), net = gross - both taxes, total = both taxes;
\* the first invoice of a year with 5 days at 500.0 has 2500, 625, 384.375
\* (3075/8), 1490.625 (11925/8) and 1009.375 (8075/8).
C5_FirstBracketFigures ==
    \E invoices \in {Invoices} :
    \A k \in 1..Len(invoices) :
        LET inv == invoices[k]
        IN  /\ PriorOf(invoices, k) + inv.days_worked * inv.daily_rate < FirstBound =>
                /\ inv.gross_profit = inv.days_worked * inv.daily_rate
                /\ 4 * inv.government_tax = inv.gross_profit
                /\ 200 * inv.social_contribution_tax =
                       41 * (inv.gross_profit - inv.government_tax)
                /\ inv.net_profit =
                       inv.gross_profit - inv.government_tax - inv.social_contribution_tax
                /\ inv.total_tax = inv.government_tax + inv.social_contribution_tax
            /\ (k = 1 /\ inv.days_worked = 5 /\ inv.daily_rate = 500 * Unit) =>
                /\ inv.gross_profit = 2500 * Unit
                /\ inv.government_tax = 625 * Unit
                /\ 8 * inv.social_contribution_tax = 3075 * Unit
                /\ 8 * inv.net_profit = 11925 * Unit
                /\ 8 * inv.total_tax = 8075 * Unit

\* the first invoice of a year, 5 days at 500.0, has just been written
C5_Witness ==
    /\ outcome = "written"
    /\ Len(ledger.rows) = 1
    /\ parse(ledger.rows[1].days_worked) = 5
    /\ parse(ledger.rows[1].daily_rate) = 500 * Unit

\* C6: an invoice creation that fails on days_worked = 0 or daily_rate = 0.0 has
\* performed no file operation: the ledger was neither read nor created nor written.
C6_NoFileIOBeforeValidation ==
    outcome \in {"panic_days_worked", "panic_daily_rate"} => io = <<>>

NameInLedger(name) == \E k \in 1..Len(ledger.rows) : ledger.rows[k].name = name

\* C7: in every state the program reaches, a call of Invoice::new whose name is
\* already in the year's ledger ends in the name panic and leaves the ledger's
\* records as they are, whatever days and rate it is given.
C7_DuplicateNameRejected ==
    \E fetched \in {fetch_invoices(ledger)} :
    \A name \in Names :
        NameInLedger(name) =>
            \A days_worked \in DaysWorked, daily_rate \in DailyRates,
               currency \in Currencies :
                LET ended == NewAfterFetch(fetched, name, days_worked, daily_rate, currency)
                IN  /\ ended.outcome = "panic_name"
                    /\ ended.ledger.rows = ledger.rows
                    /\ "append" \notin {ended.io[k] : k \in 1..Len(ended.io)}

\* a duplicate name was refused with two invoices in the ledger
C7_Witness ==
    outcome = "panic_name" /\ Len(ledger.rows) = 2 /\ io = <<"read">>

\* C10: every invoice in the ledger has 0 <= government tax <= gross profit and
\* 0 <= net profit <= gross profit.
C10_FiguresBoundedByGross ==
    \E invoices \in {Invoices} :
    \A k \in 1..Len(invoices) :
        LET inv == invoices[k]
        IN  /\ 0 <= inv.government_tax /\ inv.government_tax <= inv.gross_profit
            /\ 0 <= inv.net_profit /\ inv.net_profit <= inv.gross_profit

====
